---- MODULE Spec2Model ----
(***************************************************************************)
(* Behaviour core of the hijacked HexBug robot (robotling/hexbug.py):      *)
(* the housekeeping tick with its tilt interlock, the obstacle/cliff scan, *)
(* the turn-direction memory and the compound behaviours lookAround and    *)
(* nap, together with the configuration of hexbug_config.py.               *)
(*                                                                         *)
(* Indices are kept 0-based as in the Python source; a Python list x is a  *)
(* TLA+ sequence whose element x[k] is At(x, k).  Sensor readings are      *)
(* fixed-point numbers with Res steps per unit, so that int() is a real    *)
(* truncation.  Means of filters are exact fractions [num, den].           *)
(***************************************************************************)
EXTENDS Integers, Sequences, FiniteSets, TLC

(* ---------------- hexbug_config.py ---------------- *)
PIRO_MAX_ANGLE   == 25
DIST_OBST_CM     == 9
DIST_CLIFF_CM    == 25
MIN_DIST_SERVO   == 45
MAX_DIST_SERVO   == -45
SCAN_DIST_SERVO  == -25
SPEED_WALK       == -55
SPEED_TURN       == 35
SPEED_SCAN       == 40
SPEED_BACK_DELAY == 600
HEAD_ADJUST_FACT == -1
HEAD_ADJUST_THR  == 5
MEM_INC          == 1
NAP_FROM_S       == 5
NAP_TO_S         == 20
STATE_IDLE       == 0
STATE_WALKING    == 1
STATE_LOOKING    == 2
STATE_ON_HOLD    == 3
STATE_OBSTACLE   == 4
STATE_CLIFF      == 5
STATE_WAKING_UP  == 6
IR_SCAN_POS      == <<-300, 300, 300, -300>>
IR_SCAN_POS_DEG  == <<-35, 0, 35, 0>>

(* Window lengths of the filters created in HexBug.__init__ *)
TILT_FILTER_N    == 8
LIGHT_FILTER_N   == 5
(* randint(4, 10) saccades in lookAround *)
SACC_MIN         == 4
SACC_MAX         == 10

(* ---------------- bounds of the model ---------------- *)
\* fixed-point resolution of a range reading (steps per cm)
Res       == 2
\* housekeeping ticks interleaved with the foreground in one run
MaxTicks  == 3
\* calls of _nextTurnDir in one run
MaxTurns  == 4
\* scan positions of a generated configuration
MaxPos    == 3
\* behaviour calls (scan, lookAround, nap) in one run
MaxCalls  == 2

(* ---------------- helpers ---------------- *)
Abs(x) == IF x < 0 THEN -x ELSE x

Max2(a, b) == IF a > b THEN a ELSE b

Min2(a, b) == IF a < b THEN a ELSE b

\* Python x[k] on a list
At(x, k) == x[k + 1]

InRange(x, k) == 0 <= k /\ k < Len(x)

Range(x) == {x[i] : i \in 1..Len(x)}

RECURSIVE SumSeq(_)
SumSeq(x) == IF x = <<>> THEN 0 ELSE Head(x) + SumSeq(Tail(x))

\* Python int() of the fraction num/den: truncation toward zero
Trunc(num, den) == IF num >= 0 THEN num \div den ELSE -((-num) \div den)

(* ---------------- TemporalFilter (misc/helpers.py) ---------------- *)
\* the window after one more value: the oldest is evicted once it is full
Push(buf, v, n) == IF Len(buf) < n THEN Append(buf, v) ELSE Append(Tail(buf), v)

\* arithmetic mean of the values held, as an exact fraction
Mean(buf) == [num |-> SumSeq(buf), den |-> Len(buf)]

\* |m| > k for a fraction m
AbsExceeds(m, k) == Abs(m.num) > k * m.den

(* ---------------- construction: HexBug.__init__ ---------------- *)
\* a value no heading, colour index or return value takes
None == 0 - 1

\* the scan durations with the turning-motor bias applied; IR_SCAN_BIAS_F is
\* held in percent (pct = 100 * IR_SCAN_BIAS_F)
ScanPosBiased(pos, pct) ==
  [i \in 1..Len(pos) |->
     IF pos[i] > 0 THEN (pos[i] * (100 + pct)) \div 100
                   ELSE -(((-pos[i]) * (100 - pct)) \div 100)]

\* mutant: every entry of the angle list gets a slot of its own
DistinctAngles_All(deg, n) == SubSeq(deg, 1, n)

\* the list l of different angles after the first n entries of the angle list
RECURSIVE DistinctAngles(_, _)
DistinctAngles(deg, n) ==
  IF n = 0 THEN <<>>
  ELSE LET l == DistinctAngles(deg, n - 1)
       IN  IF n = 1 \/ deg[n] \notin Range(l) THEN Append(l, deg[n]) ELSE l

\* the first j with l[j] == v (the inner for/break loop)
FirstIndex(l, v) ==
  CHOOSE j \in 0..(Len(l) - 1) :
     At(l, j) = v /\ \A k \in 0..(j - 1) : At(l, k) # v

\* _iScanPos[iPos] for iPos = n - 1
IndexMapEntry(deg, n) ==
  LET l == DistinctAngles(deg, n - 1)
  IN  IF n = 1 \/ deg[n] \notin Range(l) THEN n - 1 ELSE FirstIndex(l, deg[n])

\* _iScanPos, [0]*len(IR_SCAN_POS) overwritten for every entry of the angle list
MakeIScanPos(pos, deg) ==
  [i \in 1..Len(pos) |-> IF i <= Len(deg) THEN IndexMapEntry(deg, i) ELSE 0]

\* the write _iScanPos[iPos] raises IndexError when the angle list is longer
CtorOk(c) == Len(c.deg) <= Len(c.pos)

\* _distData, array("i", [0]*len(l))
MakeDistData(deg) == [i \in 1..Len(DistinctAngles(deg, Len(deg))) |-> 0]

\* _distDataFilters, one filter per slot when DIST_SMOOTH >= 2
MakeDistFilters(c) ==
  IF c.distSmooth >= 2
  THEN [i \in 1..Len(DistinctAngles(c.deg, Len(c.deg))) |-> <<>>]
  ELSE <<>>

\* the configuration of hexbug_config.py as shipped (telemetry is
\* SEND_TELEMETRY), on the ESP32 platform (esp32 is platform.ID ==
\* platform.ENV_ESP32_UPY)
DefaultCfg ==
  [pos |-> IR_SCAN_POS, deg |-> IR_SCAN_POS_DEG, biasPct |-> 0, nSensor |-> 1,
   distSmooth |-> 0, findLight |-> FALSE, walkStraight |-> FALSE,
   telemetry |-> FALSE, esp32 |-> TRUE]

(* ---------------- state ---------------- *)
VARIABLES
  cfg,            \* the configuration, immutable after construction
  scanPos,        \* _scanPos
  iScanPos,       \* _iScanPos
  distData,       \* _distData
  distBufs,       \* windows of _distDataFilters
  state,          \* state
  onHold,         \* onHold, the tilt interlock
  motorTurn,      \* MotorTurn.speed
  motorWalk,      \* MotorWalk.speed
  servoOn,        \* ServoRangingSensor is driven (not off())
  servoAngle,     \* ServoRangingSensor.angle, the last angle commanded
  pixel,          \* state whose STATE_COLORS entry the NeoPixel pulses
  dim,            \* NeoPixel brightness in tenths
  pitchBuf,       \* window of PitchFilter
  rollBuf,        \* window of RollFilter
  lightBuf,       \* window of LightDiffFilter
  lightDiff,      \* lightDiff
  currHead,       \* currHead (None until the first housekeeping run)
  tele,           \* history: telemetry of the last housekeeper run
  cpsTargetHead,  \* cpsTargetHead
  targetHead,     \* _targetHead
  turnStats,      \* turnStats
  turnBias,       \* _turnBias
  pc,             \* position of the foreground control loop
  loc,            \* locals of the behaviour in progress
  last,           \* history: the operation that took the last step
  ret,            \* history: value returned by the last call that returns one
  log,            \* history: events of the scan or nap in progress or last finished
  nPos,           \* history: _nextTurnDir calls with lastTurnDir > 0
  nNeg,           \* history: _nextTurnDir calls with lastTurnDir < 0
  zeroDirs,       \* history: directions returned while turnStats was 0
  nCalls          \* history: behaviour calls started (scan, lookAround, nap)

tableVars == <<cfg, scanPos, iScanPos>>
tiltVars  == <<onHold, pitchBuf, rollBuf, lightBuf, lightDiff, currHead, tele>>
driveVars == <<motorTurn, motorWalk, servoOn, servoAngle>>
lightVars == <<pixel, dim>>
headVars  == <<cpsTargetHead, targetHead>>
turnVars  == <<turnStats, nPos, nNeg, zeroDirs>>
scanVars  == <<distData, distBufs, turnBias, log>>
vars == <<tableVars, tiltVars, driveVars, lightVars, headVars, turnVars,
          scanVars, state, pc, loc, last, ret, nCalls>>

NoLoc == [op |-> "none"]

Crashed == pc \in {"ctor_raised", "raised"}

\* the object after __init__ under configuration c, the compass reading h
InitWith(c, h) ==
  /\ cfg = c
  /\ scanPos = ScanPosBiased(c.pos, c.biasPct)
  /\ iScanPos = IF CtorOk(c) THEN MakeIScanPos(c.pos, c.deg) ELSE <<>>
  /\ distData = IF CtorOk(c) THEN MakeDistData(c.deg) ELSE <<>>
  /\ distBufs = IF CtorOk(c) THEN MakeDistFilters(c) ELSE <<>>
  /\ state = STATE_IDLE
  /\ onHold = FALSE
  /\ motorTurn = 0 /\ motorWalk = 0
  /\ servoOn = FALSE /\ servoAngle = 0
  /\ pixel = None /\ dim = 10
  /\ pitchBuf = <<>> /\ rollBuf = <<>> /\ lightBuf = <<>>
  /\ lightDiff = 0
  /\ currHead = None
  /\ tele = [ready |-> FALSE, sent |-> 0, raised |-> FALSE, state |-> None]
  /\ cpsTargetHead = IF CtorOk(c) /\ c.walkStraight /\ ~c.findLight THEN h ELSE None
  /\ targetHead = None
  /\ turnStats = 0 /\ turnBias = 0
  /\ pc = IF CtorOk(c) THEN "idle" ELSE "ctor_raised"
  /\ loc = NoLoc
  /\ last = "init" /\ ret = None /\ log = <<>>
  /\ nPos = 0 /\ nNeg = 0 /\ zeroDirs = {} /\ nCalls = 0

(* ---------------- housekeeper ---------------- *)
\* mutant: the comparison with the maximum angle is not strict
TiltInterlock_AtLeast(pAv, rAv) ==
  \/ Abs(pAv.num) >= PIRO_MAX_ANGLE * pAv.den
  \/ Abs(rAv.num) >= PIRO_MAX_ANGLE * rAv.den

\* onHold = (abs(pAv) > PIRO_MAX_ANGLE) or (abs(rAv) > PIRO_MAX_ANGLE)
TiltInterlock(pAv, rAv) ==
  AbsExceeds(pAv, PIRO_MAX_ANGLE) \/ AbsExceeds(rAv, PIRO_MAX_ANGLE)

\* a motor speed after "if self.onHold: ... speed = 0"
SpeedAfterTilt(hold, speed) == IF hold THEN 0 ELSE speed

\* the scanning servo after "if self.onHold: ... ServoRangingSensor.off()"
ServoAfterTilt(hold, on) == on /\ ~hold

\* mutant: the tilt branch forgets to force the state
StateAfterTilt_Kept(hold, st) == st

\* mutant: a run with the interlock clear takes the robot out of OnHold
StateAfterTilt_Released(hold, st) ==
  IF hold THEN STATE_ON_HOLD ELSE IF st = STATE_ON_HOLD THEN STATE_IDLE ELSE st

\* state after "if self.onHold: ... self.state = STATE_ON_HOLD"
StateAfterTilt(hold, st) == IF hold THEN STATE_ON_HOLD ELSE st

\* "if SEND_TELEMETRY and self._t._isReady" raises AttributeError when _t was
\* never created: __init__ creates it only with SEND_TELEMETRY on the ESP32
TelemetryRaises(c) == c.telemetry /\ ~c.esp32

\* the number of publishDict calls of a run with the sink's _isReady = ready
Published(c, ready) ==
  IF ~TelemetryRaises(c) /\ c.telemetry /\ ready THEN 1 ELSE 0

\* mutant: the snapshot is assembled before the tilt branch
SnapshotState_Early(before, after) == before

\* mqttd[KEY_STATE] = self.state, with the state before and after the tilt
\* branch of the run
SnapshotState(before, after) == after

\* the state whose colour the NeoPixel pulses after a run: the pulse is
\* started behind the telemetry block
PixelAfter(c, px, st) == IF TelemetryRaises(c) THEN px ELSE st

\* one run of housekeeper() on the sample s = [head, pitch, roll, dl, ready]
Housekeeper(s) ==
  LET pB   == Push(pitchBuf, s.pitch, TILT_FILTER_N)
      rB   == Push(rollBuf, s.roll, TILT_FILTER_N)
      hold == TiltInterlock(Mean(pB), Mean(rB))
      lB   == IF cfg.findLight THEN Push(lightBuf, s.dl, LIGHT_FILTER_N) ELSE lightBuf
      st   == StateAfterTilt(hold, state)
  IN  /\ pitchBuf' = pB
      /\ rollBuf' = rB
      /\ onHold' = hold
      /\ motorTurn' = SpeedAfterTilt(hold, motorTurn)
      /\ motorWalk' = SpeedAfterTilt(hold, motorWalk)
      /\ servoOn' = ServoAfterTilt(hold, servoOn)
      /\ state' = st
      /\ currHead' = s.head
      /\ lightBuf' = lB
      /\ lightDiff' = IF cfg.findLight THEN Trunc(Mean(lB).num, Mean(lB).den)
                                       ELSE lightDiff
      /\ tele' = [ready |-> s.ready, sent |-> Published(cfg, s.ready),
                   raised |-> TelemetryRaises(cfg),
                   state |-> IF Published(cfg, s.ready) = 1
                             THEN SnapshotState(state, st) ELSE None]
      /\ pixel' = PixelAfter(cfg, pixel, st)
      /\ UNCHANGED <<tableVars, servoAngle, dim, headVars, turnVars, distData,
                     distBufs, turnBias>>

\* the periodic background callback: one housekeeper run between two steps of
\* the foreground; an exception of the callback does not stop the foreground
Tick(S) ==
  /\ ~Crashed
  /\ \E s \in S : Housekeeper(s)
  /\ last' = "tick"
  /\ UNCHANGED <<pc, loc, ret, log, nCalls>>

\* the same, with at most MaxTicks housekeeper runs in a run
BoundedTick(S) == Len(pitchBuf) < MaxTicks /\ Tick(S)

\* the same, between two calls of the control loop only
IdleTick(S) == pc = "idle" /\ BoundedTick(S)

(* ---------------- the external control loop ---------------- *)
\* the control loop consults the interlock and starts nothing while it is set
CallerActs == pc = "idle" /\ ~onHold

\* the modes the control loop assigns itself
CallerModes == {STATE_IDLE, STATE_WALKING, STATE_OBSTACLE, STATE_CLIFF}

\* the control loop chooses a new mode; it does so only with the interlock
\* clear, and walks in mode Walking
SetMode ==
  /\ CallerActs
  /\ \E m \in CallerModes \ {state} :
       /\ state' = m
       /\ motorWalk' = IF m = STATE_WALKING THEN SPEED_WALK ELSE 0
  /\ last' = "caller"
  /\ UNCHANGED <<tableVars, tiltVars, motorTurn, servoOn, servoAngle, lightVars,
                 headVars, turnVars, scanVars, pc, loc, ret, nCalls>>

\* a behaviour call has returned to the control loop
Resume ==
  /\ pc = "returned"
  /\ pc' = "idle"
  /\ loc' = NoLoc
  /\ log' = <<>>
  /\ ret' = None
  /\ last' = "caller"
  /\ UNCHANGED <<tableVars, tiltVars, driveVars, lightVars, headVars, turnVars,
                 distData, distBufs, turnBias, state, nCalls>>

(* ---------------- lookAround ---------------- *)
\* pit = min(max(0, pit), maxPit) with maxPit = max(MAX_DIST_SERVO, MIN_DIST_SERVO)
ClampPit(p) == Min2(Max2(0, p), Max2(MAX_DIST_SERVO, MIN_DIST_SERVO))

\* mutant: the finally block leaves the state as it is
StateOnExit_Kept(prevState, st) == st

\* what the finally block assigns to state
StateOnExit(prevState, st) == prevState

\* mutant: the finally block leaves the servo at the pitch of the last saccade
ExitAngle_Kept(pit) == pit

\* what the finally block assigns to ServoRangingSensor.angle
ExitAngle(pit) == SCAN_DIST_SERVO

\* mutant: the loop runs one saccade too many
LoopDone_OneMore(i, nSacc) == i > nSacc

\* "for i in range(nSacc)" is exhausted
LoopDone(i, nSacc) == i >= nSacc

\* MotorWalk.speed = 0; MotorTurn.speed = 0; prevState = self.state; the
\* fields nMove and nDrive of the locals are history: the servo moves and the
\* turn-actuator drives of the saccades of this call
LookEnter ==
  /\ CallerActs
  /\ nCalls < MaxCalls
  /\ nCalls' = nCalls + 1
  /\ motorWalk' = 0
  /\ motorTurn' = 0
  /\ loc' = [op |-> "look", prevState |-> state, nSacc |-> 0, i |-> 0,
             pit |-> SCAN_DIST_SERVO, dir |-> 1, brk |-> FALSE,
             nMove |-> 0, nDrive |-> 0]
  /\ pc' = "la_state"
  /\ last' = "look"
  /\ UNCHANGED <<tableVars, tiltVars, servoOn, servoAngle, lightVars, headVars,
                 turnVars, scanVars, state, ret>>

\* self.state = STATE_LOOKING; nSacc = random.randint(4, 10)
LookState(NS) ==
  /\ pc = "la_state"
  /\ state' = STATE_LOOKING
  /\ \E n \in NS : loc' = [loc EXCEPT !.nSacc = n]
  /\ pc' = "la_check"
  /\ last' = "look"
  /\ UNCHANGED <<tableVars, tiltVars, driveVars, lightVars, headVars, turnVars,
                 scanVars, ret, nCalls>>

\* loop head: "for i in range(nSacc): if self.onHold: break", then the random
\* draws of the saccade (dYaw by its sign, the pitch step dp)
LookCheck(DP) ==
  /\ pc = "la_check"
  /\ \E d \in {-1, 1}, dp \in DP :
       IF LoopDone(loc.i, loc.nSacc)
       THEN /\ pc' = "la_stop"
            /\ loc' = loc
       ELSE IF onHold
       THEN /\ pc' = "la_stop"
            /\ loc' = [loc EXCEPT !.brk = TRUE]
       ELSE /\ pc' = "la_servo"
            /\ loc' = [loc EXCEPT !.dir = d, !.pit = ClampPit(loc.pit + dp)]
  /\ last' = "look"
  /\ UNCHANGED <<tableVars, tiltVars, driveVars, lightVars, headVars, turnVars,
                 scanVars, state, ret, nCalls>>

\* self.ServoRangingSensor.angle = pit
LookServo ==
  /\ pc = "la_servo"
  /\ servoAngle' = loc.pit
  /\ servoOn' = TRUE
  /\ loc' = [loc EXCEPT !.nMove = loc.nMove + 1]
  /\ pc' = "la_turn"
  /\ last' = "look"
  /\ UNCHANGED <<tableVars, tiltVars, motorTurn, motorWalk, lightVars, headVars,
                 turnVars, scanVars, state, ret, nCalls>>

\* self.MotorTurn.speed = SPEED_TURN * dir
LookTurn ==
  /\ pc = "la_turn"
  /\ motorTurn' = SPEED_TURN * loc.dir
  /\ loc' = [loc EXCEPT !.nDrive = loc.nDrive + 1]
  /\ pc' = "la_spin"
  /\ last' = "look"
  /\ UNCHANGED <<tableVars, tiltVars, motorWalk, servoOn, servoAngle, lightVars,
                 headVars, turnVars, scanVars, state, ret, nCalls>>

\* spin_ms(abs(dYaw)) ends; self.MotorTurn.speed = 0; the random pause starts
LookSpinStop ==
  /\ pc = "la_spin"
  /\ motorTurn' = 0
  /\ loc' = [loc EXCEPT !.i = loc.i + 1]
  /\ pc' = "la_check"
  /\ last' = "look"
  /\ UNCHANGED <<tableVars, tiltVars, motorWalk, servoOn, servoAngle, lightVars,
                 headVars, turnVars, scanVars, state, ret, nCalls>>

\* finally: MotorTurn.speed = 0; ServoRangingSensor.angle = SCAN_DIST_SERVO
LookStop ==
  /\ pc = "la_stop"
  /\ motorTurn' = 0
  /\ servoAngle' = ExitAngle(loc.pit)
  /\ servoOn' = TRUE
  /\ pc' = "la_restore"
  /\ last' = "look"
  /\ UNCHANGED <<tableVars, tiltVars, motorWalk, lightVars, headVars, turnVars,
                 scanVars, state, loc, ret, nCalls>>

\* finally: self.state = prevState; with the compass in use
\* self._targetHead = self.Compass.getHeading(); lookAround returns
LookRestore(H) ==
  /\ pc = "la_restore"
  /\ state' = StateOnExit(loc.prevState, state)
  /\ \E h \in H :
       targetHead' = IF cfg.walkStraight /\ ~cfg.findLight THEN h ELSE targetHead
  /\ pc' = "returned"
  /\ last' = "look"
  /\ UNCHANGED <<tableVars, tiltVars, driveVars, lightVars, cpsTargetHead,
                 turnVars, scanVars, loc, ret, nCalls>>

(* ---------------- _nextTurnDir ---------------- *)
\* mutant: the accumulator is clamped to one increment either way
TurnStatsAfter_Clamped(stats, lastTurnDir) ==
  IF lastTurnDir = 0 THEN stats
  ELSE IF lastTurnDir > 0 THEN Min2(stats + MEM_INC, MEM_INC)
                          ELSE Max2(stats - MEM_INC, -MEM_INC)

\* self.turnStats += MEM_INC if lastTurnDir > 0 else -MEM_INC, unless lastTurnDir == 0
TurnStatsAfter(stats, lastTurnDir) ==
  IF lastTurnDir = 0 THEN stats
  ELSE IF lastTurnDir > 0 THEN stats + MEM_INC ELSE stats - MEM_INC

\* mutant: a nonzero accumulator turns the robot the other way
TurnDirs_Away(stats) ==
  IF stats = 0 THEN {-1, 1} ELSE IF stats > 0 THEN {-1} ELSE {1}

\* the values _nextTurnDir can return: [-1,1][random.randint(0,1)] or the sign
TurnDirs(stats) ==
  IF stats = 0 THEN {-1, 1} ELSE IF stats > 0 THEN {1} ELSE {-1}

\* the control loop calls _nextTurnDir(lastTurnDir)
NextTurnDir ==
  /\ CallerActs
  /\ \E lastTurnDir \in {-1, 0, 1} :
       /\ lastTurnDir # 0 => nPos + nNeg < MaxTurns
       /\ turnStats' = TurnStatsAfter(turnStats, lastTurnDir)
       /\ nPos' = IF lastTurnDir > 0 THEN nPos + 1 ELSE nPos
       /\ nNeg' = IF lastTurnDir < 0 THEN nNeg + 1 ELSE nNeg
  /\ \E r \in TurnDirs(turnStats') :
       /\ ret' = r
       /\ zeroDirs' = IF turnStats' = 0 THEN zeroDirs \cup {r} ELSE zeroDirs
  /\ last' = "turn"
  /\ UNCHANGED <<tableVars, tiltVars, driveVars, lightVars, headVars, scanVars,
                 state, pc, loc, nCalls>>

(* ---------------- scanForObstacleOrCliff ---------------- *)
\* the bias the scan computes: -lightDiff with DO_FIND_LIGHT; the heading
\* branch assigns its correction to tb and leaves bias at 0
ScanBias(c, ld, head, target) == IF c.findLight THEN -ld ELSE 0

\* the heading branch reads currHead, which only housekeeper assigns
BiasRaises(c, head) == ~c.findLight /\ c.walkStraight /\ head = None

\* d = int(range_cm) for the raw reading r (Res steps per cm)
ReadingCm(r) == Trunc(r, Res)

\* o or (d < DIST_OBST_CM), c or (d > DIST_CLIFF_CM)
ObstFlag(o, d) == o \/ d < DIST_OBST_CM

CliffFlag(c, d) == c \/ d > DIST_CLIFF_CM

\* return 1 if c else -1 if o else 0
ScanResult(o, c) == IF c THEN 1 ELSE IF o THEN -1 ELSE 0

\* SPEED_SCAN * (-1,1)[Pos < 0]
ScanSpeed(pos) == SPEED_SCAN * (IF pos < 0 THEN 1 ELSE -1)

\* mutant: the bias is added to the drive duration of every position
SweepWait_AllBiased(positions, iPos, bias) == Abs(At(positions, iPos)) + bias

\* spin_ms(abs(Pos) + b) with b = 0 if iPos < l else bias, l = len(_scanPos) - 1
SweepWait(positions, iPos, bias) ==
  Abs(At(positions, iPos)) + (IF iPos < Len(positions) - 1 THEN 0 ELSE bias)

\* td = abs(IR_SCAN_BIAS_F * 200) + bias
NudgeTime(pct, bias) == Abs(2 * pct) + bias

\* mutant: the padding ignores the time the nudge took
PadTime_Full(td) == SPEED_BACK_DELAY \div 3

\* sd = SPEED_BACK_DELAY // 3 - td
PadTime(td) == (SPEED_BACK_DELAY \div 3) - td

\* the time spin_ms(d) takes
SpinTime(d) == Max2(d, 0)

\* mutant: the scan leaves the turn actuator running after a wait
SpeedAfterWait_Kept(speed) == speed

\* self.MotorTurn.speed = 0 behind spin_ms, the actuator having been driven
\* at speed
SpeedAfterWait(speed) == 0

\* entry of the scan: bias, o = c = False
ScanEnter ==
  /\ CallerActs
  /\ nCalls < MaxCalls
  /\ nCalls' = nCalls + 1
  /\ IF BiasRaises(cfg, currHead)
     THEN /\ pc' = "raised"
          /\ loc' = NoLoc
     ELSE /\ loc' = [op |-> "scan", iPos |-> 0, o |-> FALSE, c |-> FALSE,
                     bias |-> ScanBias(cfg, lightDiff, currHead, cpsTargetHead)]
          /\ pc' = IF cfg.nSensor = 1
                   THEN (IF Len(scanPos) = 0 THEN "sc_done" ELSE "sc_turn")
                   ELSE "sc_poll"
  /\ log' = <<>>
  /\ last' = "scan"
  /\ UNCHANGED <<tableVars, tiltVars, driveVars, lightVars, headVars, turnVars,
                 distData, distBufs, turnBias, state, ret>>

\* sweep: self.MotorTurn.speed = SPEED_SCAN * (-1,1)[Pos < 0]
SweepTurn ==
  /\ pc = "sc_turn"
  /\ motorTurn' = ScanSpeed(At(scanPos, loc.iPos))
  /\ log' = Append(log, <<"turn", motorTurn'>>)
  /\ pc' = "sc_spin"
  /\ last' = "scan"
  /\ UNCHANGED <<tableVars, tiltVars, motorWalk, servoOn, servoAngle, lightVars,
                 headVars, turnVars, distData, distBufs, turnBias, state, loc, ret, nCalls>>

\* sweep: spin_ms(abs(Pos) + b) ends; self.MotorTurn.speed = 0
SweepStop ==
  /\ pc = "sc_spin"
  /\ motorTurn' = SpeedAfterWait(ScanSpeed(At(scanPos, loc.iPos)))
  /\ log' = log \o << <<"wait", SweepWait(scanPos, loc.iPos, loc.bias)>>,
                      <<"turn", motorTurn'>> >>
  /\ pc' = "sc_read"
  /\ last' = "scan"
  /\ UNCHANGED <<tableVars, tiltVars, motorWalk, servoOn, servoAngle, lightVars,
                 headVars, turnVars, distData, distBufs, turnBias, state, loc, ret, nCalls>>

\* sweep: d = int(range_cm); self._distData[self._iScanPos[iPos]] = d; o, c
SweepRead(R) ==
  /\ pc = "sc_read"
  /\ \E r \in R :
       LET d    == ReadingCm(r)
           slot == At(iScanPos, loc.iPos)
       IN  IF InRange(distData, slot)
           THEN /\ distData' = [distData EXCEPT ![slot + 1] = d]
                /\ log' = Append(log, <<"read", r, slot>>)
                /\ loc' = [loc EXCEPT !.iPos = loc.iPos + 1,
                                      !.o = ObstFlag(loc.o, d),
                                      !.c = CliffFlag(loc.c, d)]
                /\ pc' = IF loc.iPos + 1 < Len(scanPos) THEN "sc_turn" ELSE "sc_done"
           ELSE /\ pc' = "raised"
                /\ log' = Append(log, <<"raise", r, slot>>)
                /\ UNCHANGED <<distData, loc>>
  /\ last' = "scan"
  /\ UNCHANGED <<tableVars, tiltVars, driveVars, lightVars, headVars, turnVars,
                 distBufs, turnBias, state, ret, nCalls>>

\* array: d = int(RangingSensor[iPos].range_cm), smoothed with DIST_SMOOTH >= 2;
\* self._distData[iPos] = d; o, c
ArrayRead(R) ==
  /\ pc = "sc_poll"
  /\ \E r \in R :
       LET k      == loc.iPos
           smooth == cfg.distSmooth >= 2
           buf    == IF smooth /\ InRange(distBufs, k)
                     THEN Push(At(distBufs, k), ReadingCm(r), cfg.distSmooth)
                     ELSE <<>>
           d      == IF smooth /\ InRange(distBufs, k)
                     THEN Trunc(Mean(buf).num, Mean(buf).den)
                     ELSE ReadingCm(r)
       IN  IF (smooth /\ ~InRange(distBufs, k)) \/ ~InRange(distData, k)
           THEN /\ pc' = "raised"
                /\ log' = Append(log, <<"raise", r, k>>)
                /\ UNCHANGED <<distData, distBufs, loc>>
           ELSE /\ distBufs' = IF smooth THEN [distBufs EXCEPT ![k + 1] = buf]
                                         ELSE distBufs
                /\ distData' = [distData EXCEPT ![k + 1] = d]
                /\ log' = Append(log, <<"read", r, k>>)
                /\ loc' = [loc EXCEPT !.iPos = k + 1,
                                      !.o = ObstFlag(loc.o, d),
                                      !.c = CliffFlag(loc.c, d)]
                /\ pc' = IF k + 1 < cfg.nSensor THEN "sc_poll" ELSE "sc_nudge"
  /\ last' = "scan"
  /\ UNCHANGED <<tableVars, tiltVars, driveVars, lightVars, headVars, turnVars,
                 turnBias, state, ret, nCalls>>

\* array: self.MotorTurn.speed = SPEED_SCAN * (-1,1)[IR_SCAN_BIAS_F < 0]
ArrayNudge ==
  /\ pc = "sc_nudge"
  /\ motorTurn' = SPEED_SCAN * (IF cfg.biasPct < 0 THEN 1 ELSE -1)
  /\ log' = Append(log, <<"turn", motorTurn'>>)
  /\ pc' = "sc_nspin"
  /\ last' = "scan"
  /\ UNCHANGED <<tableVars, tiltVars, motorWalk, servoOn, servoAngle, lightVars,
                 headVars, turnVars, distData, distBufs, turnBias, state, loc, ret, nCalls>>

\* array: spin_ms(td) ends; self.MotorTurn.speed = 0
ArrayStop ==
  /\ pc = "sc_nspin"
  /\ motorTurn' = SpeedAfterWait(SPEED_SCAN * (IF cfg.biasPct < 0 THEN 1 ELSE -1))
  /\ log' = log \o << <<"wait", NudgeTime(cfg.biasPct, loc.bias)>>,
                      <<"turn", motorTurn'>> >>
  /\ pc' = "sc_pad"
  /\ last' = "scan"
  /\ UNCHANGED <<tableVars, tiltVars, motorWalk, servoOn, servoAngle, lightVars,
                 headVars, turnVars, distData, distBufs, turnBias, state, loc, ret, nCalls>>

\* array: sd = SPEED_BACK_DELAY//3 - td; if sd > 0: spin_ms(sd)
ArrayPad ==
  /\ pc = "sc_pad"
  /\ LET sd == PadTime(NudgeTime(cfg.biasPct, loc.bias))
     IN  log' = IF sd > 0 THEN Append(log, <<"wait", sd>>) ELSE log
  /\ pc' = "sc_done"
  /\ last' = "scan"
  /\ UNCHANGED <<tableVars, tiltVars, driveVars, lightVars, headVars, turnVars,
                 distData, distBufs, turnBias, state, loc, ret, nCalls>>

\* self._turnBias = bias; return 1 if c else -1 if o else 0
ScanReturn ==
  /\ pc = "sc_done"
  /\ turnBias' = loc.bias
  /\ ret' = ScanResult(loc.o, loc.c)
  /\ pc' = "returned"
  /\ last' = "scan"
  /\ UNCHANGED <<tableVars, tiltVars, driveVars, lightVars, headVars, turnVars,
                 distData, distBufs, log, state, loc, nCalls>>

(* ---------------- nap ---------------- *)
\* the steps of the dimming loops, range(10, -1, -1) and range(0, 11)
DIM_STEPS == 10

\* mutant: waking up leaves the state as it is
NapWakeState_Kept(prevState, st) == st

\* what nap assigns to state after the sleep
NapWakeState(prevState, st) == prevState

\* prevState = self.state
NapEnter ==
  /\ CallerActs
  /\ nCalls < MaxCalls
  /\ nCalls' = nCalls + 1
  /\ loc' = [op |-> "nap", prevState |-> state, k |-> 0, secs |-> 0]
  /\ pc' = "nap_state"
  /\ log' = <<>>
  /\ last' = "nap"
  /\ UNCHANGED <<tableVars, tiltVars, driveVars, lightVars, headVars, turnVars,
                 distData, distBufs, turnBias, state, ret>>

\* self.state = STATE_WAKING_UP
NapState ==
  /\ pc = "nap_state"
  /\ state' = STATE_WAKING_UP
  /\ pc' = "nap_hk1"
  /\ log' = log \o << <<"state", STATE_WAKING_UP>> >>
  /\ last' = "nap"
  /\ UNCHANGED <<tableVars, tiltVars, driveVars, lightVars, headVars, turnVars,
                 distData, distBufs, turnBias, loc, ret, nCalls>>

\* self.housekeeper(), called by nap before the motors are stopped and again
\* after waking up
NapHousekeeper(S) ==
  /\ pc \in {"nap_hk1", "nap_hk2"}
  /\ Len(pitchBuf) < MaxTicks
  /\ \E s \in S : Housekeeper(s)
  /\ pc' = IF TelemetryRaises(cfg) THEN "raised"
           ELSE IF pc = "nap_hk1" THEN "nap_stop" ELSE "nap_up"
  /\ loc' = [loc EXCEPT !.k = 0]
  /\ log' = Append(log, <<"hk">>)
  /\ last' = "nap_hk"
  /\ UNCHANGED <<ret, nCalls>>

\* MotorWalk.speed = 0; MotorTurn.speed = 0; ServoRangingSensor.angle = 0
NapStop ==
  /\ pc = "nap_stop"
  /\ motorWalk' = 0
  /\ motorTurn' = 0
  /\ servoAngle' = 0
  /\ servoOn' = TRUE
  /\ loc' = [loc EXCEPT !.k = DIM_STEPS]
  /\ pc' = "nap_dim"
  /\ log' = log \o << <<"walk", 0>>, <<"turn", 0>>, <<"servo", 0>> >>
  /\ last' = "nap"
  /\ UNCHANGED <<tableVars, tiltVars, lightVars, headVars, turnVars, distData,
                 distBufs, turnBias,
                 state, ret, nCalls>>

\* for i in range(10, -1, -1): dimNeoPixel(i/10.0); spin_ms(250)
NapDim ==
  /\ pc = "nap_dim"
  /\ dim' = loc.k
  /\ IF loc.k > 0
     THEN /\ loc' = [loc EXCEPT !.k = loc.k - 1]
          /\ pc' = "nap_dim"
     ELSE /\ loc' = [loc EXCEPT !.k = 0]
          /\ pc' = IF 0 > SCAN_DIST_SERVO THEN "nap_drop" ELSE "nap_flash"
  /\ log' = log \o << <<"dim", loc.k>> >>
  /\ last' = "nap"
  /\ UNCHANGED <<tableVars, tiltVars, driveVars, pixel, headVars, turnVars,
                 distData, distBufs, turnBias, state, ret, nCalls>>

\* for p in range(0, SCAN_DIST_SERVO, -1): ServoRangingSensor.angle = p; spin_ms(10)
NapDrop ==
  /\ pc = "nap_drop"
  /\ servoAngle' = loc.k
  /\ servoOn' = TRUE
  /\ loc' = [loc EXCEPT !.k = loc.k - 1]
  /\ pc' = IF loc.k - 1 > SCAN_DIST_SERVO THEN "nap_drop" ELSE "nap_flash"
  /\ log' = log \o << <<"servo", loc.k>> >>
  /\ last' = "nap"
  /\ UNCHANGED <<tableVars, tiltVars, motorTurn, motorWalk, lightVars, headVars,
                 turnVars, distData, distBufs, turnBias, state, ret, nCalls>>

\* dimNeoPixel(1.0); spin_ms(100)
NapFlashOn ==
  /\ pc = "nap_flash"
  /\ dim' = 10
  /\ pc' = "nap_dark"
  /\ log' = log \o << <<"dim", 10>> >>
  /\ last' = "nap"
  /\ UNCHANGED <<tableVars, tiltVars, driveVars, pixel, headVars, turnVars,
                 distData, distBufs, turnBias, state, loc, ret, nCalls>>

\* dimNeoPixel(0.0)
NapFlashOff ==
  /\ pc = "nap_dark"
  /\ dim' = 0
  /\ pc' = "nap_sleep"
  /\ log' = log \o << <<"dim", 0>> >>
  /\ last' = "nap"
  /\ UNCHANGED <<tableVars, tiltVars, driveVars, pixel, headVars, turnVars,
                 distData, distBufs, turnBias, state, loc, ret, nCalls>>

\* sleepLightly(random.randint(NAP_FROM_S, NAP_TO_S)) and the wake-up
NapSleep(T) ==
  /\ pc = "nap_sleep"
  /\ \E t \in T : loc' = [loc EXCEPT !.secs = t]
  /\ pc' = "nap_wake"
  /\ log' = log \o << <<"sleep">> >>
  /\ last' = "nap"
  /\ UNCHANGED <<tableVars, tiltVars, driveVars, lightVars, headVars, turnVars,
                 distData, distBufs, turnBias, state, ret, nCalls>>

\* self.state = prevState
NapWake ==
  /\ pc = "nap_wake"
  /\ state' = NapWakeState(loc.prevState, state)
  /\ pc' = "nap_arm"
  /\ log' = log \o << <<"state", state'>> >>
  /\ last' = "nap"
  /\ UNCHANGED <<tableVars, tiltVars, driveVars, lightVars, headVars, turnVars,
                 distData, distBufs, turnBias, loc, ret, nCalls>>

\* ServoRangingSensor.angle = SCAN_DIST_SERVO
NapArm ==
  /\ pc = "nap_arm"
  /\ servoAngle' = SCAN_DIST_SERVO
  /\ servoOn' = TRUE
  /\ pc' = "nap_hk2"
  /\ log' = log \o << <<"servo", SCAN_DIST_SERVO>> >>
  /\ last' = "nap"
  /\ UNCHANGED <<tableVars, tiltVars, motorTurn, motorWalk, lightVars, headVars,
                 turnVars, distData, distBufs, turnBias, state, loc, ret, nCalls>>

\* for i in range(0, 11): dimNeoPixel(i/10.0); spin_ms(250); nap returns
NapUp ==
  /\ pc = "nap_up"
  /\ dim' = loc.k
  /\ loc' = [loc EXCEPT !.k = loc.k + 1]
  /\ pc' = IF loc.k < DIM_STEPS THEN "nap_up" ELSE "returned"
  /\ log' = log \o << <<"dim", loc.k>> >>
  /\ last' = "nap"
  /\ UNCHANGED <<tableVars, tiltVars, driveVars, pixel, headVars, turnVars,
                 distData, distBufs, turnBias, state, ret, nCalls>>

(* ---------------- inputs ---------------- *)
Level   == [head |-> 0, pitch |-> 0, roll |-> 0, dl |-> 0, ready |-> TRUE]
Pitched == [head |-> 0, pitch |-> 40, roll |-> 0, dl |-> 0, ready |-> TRUE]
Rolled  == [head |-> 0, pitch |-> 0, roll |-> -40, dl |-> 0, ready |-> TRUE]
\* samples whose window means reach PIRO_MAX_ANGLE exactly
PitchedTwice == [head |-> 0, pitch |-> 2 * PIRO_MAX_ANGLE, roll |-> 0, dl |-> 0, ready |-> TRUE]
RolledTwice  == [head |-> 0, pitch |-> 0, roll |-> -(2 * PIRO_MAX_ANGLE), dl |-> 0,
                 ready |-> TRUE]
FewSamples  == {Level, Pitched}
EdgeSamples == {Level, PitchedTwice, RolledTwice}
\* level samples with a heading and a light differential
Veered   == [head |-> 20, pitch |-> 0, roll |-> 0, dl |-> -300, ready |-> TRUE]
Straight == [head |-> 3, pitch |-> 0, roll |-> 0, dl |-> 40, ready |-> TRUE]
BiasSamples == {Veered, Straight}

\* raw range readings: 5, 9, 25, 25 + 1/Res and 30 cm
Readings == {5 * Res, DIST_OBST_CM * Res, DIST_CLIFF_CM * Res,
             DIST_CLIFF_CM * Res + 1, 30 * Res}
OneReading == {15 * Res}

(* ---------------- the robot with its background tick ---------------- *)
Init == InitWith(DefaultCfg, 0)

LookSteps(NS) ==
  \/ LookEnter
  \/ LookState(NS)
  \/ LookCheck({15})
  \/ LookServo
  \/ LookTurn
  \/ LookSpinStop
  \/ LookStop
  \/ LookRestore({0})

SweepSteps(R) ==
  \/ ScanEnter
  \/ SweepTurn
  \/ SweepStop
  \/ SweepRead(R)
  \/ ScanReturn

ArraySteps(R) ==
  \/ ArrayRead(R)
  \/ ArrayNudge
  \/ ArrayStop
  \/ ArrayPad

NapSteps(S) ==
  \/ NapEnter
  \/ NapState
  \/ NapHousekeeper(S)
  \/ NapStop
  \/ NapDim
  \/ NapDrop
  \/ NapFlashOn
  \/ NapFlashOff
  \/ NapSleep({NAP_FROM_S, NAP_TO_S})
  \/ NapWake
  \/ NapArm
  \/ NapUp

Next ==
  \/ BoundedTick(FewSamples)
  \/ SetMode
  \/ Resume
  \/ LookSteps({SACC_MIN, SACC_MAX})
  \/ SweepSteps(OneReading)
  \/ NapSteps(FewSamples)

Spec == Init /\ [][Next]_vars

(* ---------------- the tilt monitor on long runs of samples ---------------- *)
NextTilt == Tick(EdgeSamples)

SpecTilt == Init /\ [][NextTilt]_vars

(* ---------------- the turn memory among the other operations ---------------- *)
NextTurn ==
  \/ NextTurnDir
  \/ IdleTick(FewSamples)
  \/ Resume
  \/ LookSteps({SACC_MIN})
  \/ SweepSteps(OneReading)
  \/ NapSteps(FewSamples)

SpecTurn == Init /\ [][NextTurn]_vars

(* ---------------- configurations of the scan positions ---------------- *)
ScanAngles == {-35, 0, 35}

RECURSIVE SeqsUpTo(_, _)
SeqsUpTo(S, n) ==
  IF n = 0 THEN {<<>>}
  ELSE LET shorter == SeqsUpTo(S, n - 1)
       IN  shorter \cup {Append(q, x) : q \in shorter, x \in S}

\* a configuration for the angle list deg, the head swinging left and right
CfgFor(deg) ==
  [DefaultCfg EXCEPT !.deg = deg,
                     !.pos = [i \in 1..Len(deg) |-> IF i % 2 = 1 THEN -300 ELSE 300]]

AngleConfigs == {CfgFor(deg) : deg \in SeqsUpTo(ScanAngles, MaxPos)} \cup {DefaultCfg}

InitCfg == \E c \in AngleConfigs : InitWith(c, 0)

NextCfg ==
  \/ IdleTick(FewSamples)
  \/ Resume
  \/ LookSteps({SACC_MIN})
  \/ SweepSteps(OneReading)
  \/ NapSteps(FewSamples)

SpecCfg == InitCfg /\ [][NextCfg]_vars

(* ---------------- one scan cycle on every sequence of readings ---------------- *)
ArrayCfg == [DefaultCfg EXCEPT !.nSensor = 2]
SmoothCfg == [DefaultCfg EXCEPT !.nSensor = 2, !.distSmooth = 2]

InitClassify == \E c \in {DefaultCfg, ArrayCfg, SmoothCfg} : InitWith(c, 0)

NextClassify ==
  \/ Resume
  \/ SweepSteps(Readings)
  \/ ArraySteps(Readings)

SpecClassify == InitClassify /\ [][NextClassify]_vars

(* ---------------- the bias correction of a scan cycle ---------------- *)
BiasConfigs ==
  {[DefaultCfg EXCEPT !.nSensor = n, !.biasPct = b, !.findLight = f[1],
                      !.walkStraight = f[2]] :
     n \in {1, 2}, b \in {-5, 0, 5},
     f \in {<<FALSE, FALSE>>, <<TRUE, FALSE>>, <<FALSE, TRUE>>, <<TRUE, TRUE>>}}

InitBias == \E c \in BiasConfigs : InitWith(c, 0)

NextBias ==
  \/ IdleTick(BiasSamples)
  \/ Resume
  \/ SweepSteps(OneReading)
  \/ ArraySteps(OneReading)

SpecBias == InitBias /\ [][NextBias]_vars

(* ---------------- properties ---------------- *)
HousekeeperRan == last \in {"tick", "nap_hk"}

LookReturned == pc = "returned" /\ loc.op = "look"

ScanReturned == pc = "returned" /\ loc.op = "scan"

\* C1: whenever a housekeeping run computes the tilt interlock as true, at its
\* end both actuators are at speed 0, the scanning servo is off and the state
\* is OnHold, whatever the state was before.
C1_TiltStopsRobot ==
  (HousekeeperRan /\ onHold) =>
     /\ motorWalk = 0
     /\ motorTurn = 0
     /\ ~servoOn
     /\ state = STATE_ON_HOLD

\* the first housekeeping run of the execution interrupts a saccade that is
\* driving the turn actuator in state Looking
C1_TiltDuringSaccade ==
  /\ last = "tick" /\ onHold
  /\ pc = "la_spin" /\ Len(pitchBuf) = 1
  /\ state = STATE_ON_HOLD

\* C2: after every housekeeping run the interlock is set if and only if the
\* mean of the pitch window or of the roll window is, in magnitude, strictly
\* above PIRO_MAX_ANGLE; it carries nothing over from earlier runs.
C2_InterlockIffSmoothedTilt ==
  onHold <=> \/ Abs(SumSeq(pitchBuf)) > PIRO_MAX_ANGLE * Len(pitchBuf)
             \/ Abs(SumSeq(rollBuf)) > PIRO_MAX_ANGLE * Len(rollBuf)

\* a full window whose newest raw pitch is above the maximum while the
\* interlock is clear
C2_RawAboveSmoothedBelow ==
  /\ last = "tick" /\ ~onHold
  /\ Len(pitchBuf) = TILT_FILTER_N
  /\ pitchBuf[TILT_FILTER_N] > PIRO_MAX_ANGLE

\* C3: when lookAround returns, the turn actuator is at speed 0 and the last
\* angle commanded on the scanning servo is SCAN_DIST_SERVO, wherever the
\* interlock was set during the call.
C3_LookLeavesNeutral ==
  LookReturned => (motorTurn = 0 /\ servoAngle = SCAN_DIST_SERVO)

\* lookAround returns after the interlock stopped it behind its second saccade
C3_AbortedAfterTwo ==
  LookReturned /\ last = "look" /\ loc.brk /\ loc.i = 2

\* C4 as claimed: with the state OnHold and the interlock set before and after
\* a step of housekeeper, scan, lookAround or nap, the state stays OnHold.
C4_OnHoldKept ==
  [][(state = STATE_ON_HOLD /\ onHold /\ onHold' /\ last' # "caller")
       => state' = STATE_ON_HOLD]_vars

\* the raw readings of the scan in the log
RawReadings == {e[2] : e \in {x \in Range(log) : x[1] = "read"}}

\* C5 as claimed: the result of a scan is Cliff if a reading is strictly above
\* the cliff threshold, else Obstacle if a reading is strictly below the
\* obstacle threshold, else None.
C5_ClassifiedByReading ==
  ScanReturned =>
     ret = IF \E r \in RawReadings : r > DIST_CLIFF_CM * Res THEN 1
           ELSE IF \E r \in RawReadings : r < DIST_OBST_CM * Res THEN -1
           ELSE 0

\* C6: the distance profile has one slot per different angle of the
\* configured angle list, at construction and ever after.
C6_ProfileLength == Len(distData) = Cardinality(Range(cfg.deg))

\* a scan over positions that share an angle has returned
C6_SharedAngleScanned ==
  ScanReturned /\ Len(cfg.deg) > Len(distData) /\ nCalls = 2

\* C7: _nextTurnDir returns -1 or 1, and the sign of the accumulator when the
\* accumulator, after this call's update, is not zero.
C7_DirectionFollowsStats ==
  last = "turn" =>
     /\ ret \in {-1, 1}
     /\ turnStats > 0 => ret = 1
     /\ turnStats < 0 => ret = -1

\* both directions have been returned with the accumulator at zero, the last
\* time after as many positive as negative updates
C7_BothDirectionsAtZero ==
  /\ last = "turn" /\ turnStats = 0
  /\ nPos >= 1 /\ nPos = nNeg
  /\ zeroDirs = {-1, 1}

\* C8: the accumulator is MEM_INC times the calls with a positive last
\* direction minus those with a negative one, whatever else has run.
C8_StatsCountCalls == turnStats = MEM_INC * (nPos - nNeg)

\* three updates and a nap later
C8_CountedAcrossNap ==
  /\ nPos = 2 /\ nNeg = 1
  /\ pc = "returned" /\ loc.op = "nap"

\* the bias correction the specification describes
SpecifiedBias ==
  IF cfg.findLight THEN -lightDiff
  ELSE IF cfg.walkStraight
       THEN LET dh == currHead - cpsTargetHead
            IN  IF Abs(dh) > HEAD_ADJUST_THR THEN dh * HEAD_ADJUST_FACT ELSE 0
       ELSE 0

\* C9 as claimed: the bias a scan remembers is -lightDiff with light seeking,
\* else the heading error times the adjustment factor when heading hold is on
\* and the error is above the threshold, else 0.
C9_BiasAsSpecified == ScanReturned => turnBias = SpecifiedBias

\* the durations of the waits of the scan in the log
Waits == SelectSeq(log, LAMBDA e : e[1] = "wait")

RECURSIVE TotalWait(_)
TotalWait(w) == IF w = <<>> THEN 0 ELSE SpinTime(Head(w)[2]) + TotalWait(Tail(w))

MinCycle == SPEED_BACK_DELAY \div 3

ArrayReturned == ScanReturned /\ cfg.nSensor > 1

\* C10 as claimed: in array mode the waits of a scan cycle add up to the
\* minimum cycle duration, whatever the bias factor and the bias correction.
C10_ConstantCycle == ArrayReturned => TotalWait(Waits) = MinCycle

\* C10 as amended: they add up to at least the minimum cycle duration, and to
\* exactly that when the nudge takes between 0 and the minimum.
C10_MinimumCycle ==
  ArrayReturned =>
     /\ TotalWait(Waits) >= MinCycle
     /\ (0 <= Waits[1][2] /\ Waits[1][2] <= MinCycle) => TotalWait(Waits) = MinCycle

\* an array scan with a nudge shorter than the minimum, padded
C10_PaddedNudge ==
  ArrayReturned /\ Waits[1][2] > 0 /\ Waits[1][2] < MinCycle /\ Len(Waits) = 2

\* C11 as claimed: the distance profile and the interlock flag change only in
\* a step of the background housekeeping callback, never in a step of scan,
\* lookAround or nap.
C11_BackgroundWritesOnly ==
  [][(distData' # distData \/ onHold' # onHold) => last' = "tick"]_vars

\* C12 as claimed: a sweep that finds the interlock set when it comes to its
\* next position does not drive the turn actuator for that position.
C12_SweepCancelled ==
  [][(pc = "sc_turn" /\ onHold /\ last' = "scan") => motorTurn' = 0]_vars

\* C13 as claimed: with the interlock set, no step of lookAround or scan
\* commands a speed other than 0 on the turn or the walk actuator.
C13_NoDriveOnHold ==
  [][(onHold /\ last' \in {"look", "scan"})
       => /\ motorTurn' \in {0, motorTurn}
          /\ motorWalk' \in {0, motorWalk}]_vars

\* C14 as claimed: a configuration that construction has accepted never makes
\* a scan or a housekeeping run fail later.
C14_FailsAtConstruction == pc # "raised"

\* C19 as claimed: two positions have the same slot in the index map exactly
\* when they have the same angle, every slot of the map is an index of the
\* distance profile, and so is every sensor index of array mode.
C19_IndexMapSound ==
  pc # "ctor_raised" =>
     /\ \A i, j \in 1..Len(cfg.deg) :
          (iScanPos[i] = iScanPos[j]) <=> (cfg.deg[i] = cfg.deg[j])
     /\ \A i \in 1..Len(iScanPos) : InRange(distData, iScanPos[i])
     /\ cfg.nSensor > 1 => \A k \in 0..(cfg.nSensor - 1) : InRange(distData, k)

NapReturned == pc = "returned" /\ loc.op = "nap"

\* the brightness ramps of nap, range(10, -1, -1) and range(0, 11), in tenths
DimDown == [i \in 1..(DIM_STEPS + 1) |-> <<"dim", DIM_STEPS + 1 - i>>]

DimUp == [i \in 1..(DIM_STEPS + 1) |-> <<"dim", i - 1>>]

\* the angles of the servo ramp, range(0, SCAN_DIST_SERVO, -1)
ArmDrop == [i \in 1..(0 - SCAN_DIST_SERVO) |-> <<"servo", 1 - i>>]

\* the steps of a nap entered in state prev, in the order claimed
NapTrace(prev) ==
  << <<"state", STATE_WAKING_UP>>, <<"hk">>, <<"walk", 0>>, <<"turn", 0>>,
     <<"servo", 0>> >>
  \o DimDown \o ArmDrop
  \o << <<"dim", 10>>, <<"dim", 0>>, <<"sleep">>, <<"state", prev>>,
        <<"servo", SCAN_DIST_SERVO>>, <<"hk">> >>
  \o DimUp

\* C15: a nap that has returned went through its steps in the order WakingUp,
\* housekeeping, actuators to 0, servo to 0, ramp down, servo ramp, flash,
\* suspend, state of entry restored, servo to scan angle, housekeeping, ramp
\* up of as many steps as the ramp down; it commands no speed but 0.
C15_NapInOrder == NapReturned => log = NapTrace(loc.prevState)

\* a nap entered while walking has returned, the state Walking again
C15_NapFromWalking ==
  NapReturned /\ loc.prevState = STATE_WALKING /\ state = STATE_WALKING

\* C16: right after its entry lookAround has both actuators at 0 and the state
\* Looking, and when it returns, after all saccades or after the interlock
\* stopped it, the state is the one it found at entry.
C16_LookKeepsState ==
  /\ (pc = "la_check" /\ loc.i = 0 /\ last = "look")
       => (motorWalk = 0 /\ motorTurn = 0 /\ state = STATE_LOOKING)
  /\ (LookReturned /\ last = "look") => state = loc.prevState

\* a lookAround entered while walking and stopped by the interlock has returned
C16_AbortedLookRestores ==
  /\ LookReturned /\ last = "look" /\ loc.brk
  /\ loc.prevState = STATE_WALKING /\ state = STATE_WALKING

(* ---------------- heading hold across lookAround ---------------- *)
\* compass headings at construction and at the exit of lookAround
Headings == {0, 20}

HeadConfigs ==
  {[DefaultCfg EXCEPT !.walkStraight = TRUE, !.findLight = f] : f \in BOOLEAN}

InitHead == \E c \in HeadConfigs, h \in Headings : InitWith(c, h)

NextHead ==
  \/ IdleTick(BiasSamples)
  \/ Resume
  \/ LookEnter
  \/ LookState({SACC_MIN})
  \/ LookCheck({15})
  \/ LookServo
  \/ LookTurn
  \/ LookSpinStop
  \/ LookStop
  \/ LookRestore(Headings)
  \/ SweepSteps(OneReading)

SpecHead == InitHead /\ [][NextHead]_vars

\* C17 as claimed: with heading hold on and light seeking off, after
\* lookAround has returned the target heading the scan computes its heading
\* error from is the heading read at the exit of lookAround.
C17_TargetFromLook ==
  (LookReturned /\ cfg.walkStraight /\ ~cfg.findLight) => cpsTargetHead = targetHead

(* ---------------- telemetry in the housekeeping run ---------------- *)
\* SEND_TELEMETRY on and off, on the ESP32 and on another platform
TeleConfigs ==
  {[DefaultCfg EXCEPT !.telemetry = s, !.esp32 = e] : s \in BOOLEAN, e \in BOOLEAN}

\* level and tilted samples with the sink ready and not ready
TeleSamples == {[s EXCEPT !.ready = r] : s \in FewSamples, r \in BOOLEAN}

InitTele == \E c \in TeleConfigs : InitWith(c, 0)

NextTele ==
  \/ BoundedTick(TeleSamples)
  \/ SetMode

SpecTele == InitTele /\ [][NextTele]_vars

\* C18 as claimed: a housekeeping run publishes once when SEND_TELEMETRY is on
\* and the sink is ready and not at all otherwise, it never fails, and it
\* leaves the NeoPixel on the colour of the state either way.
C18_TelemetrySilent ==
  [][last' = "tick" =>
       /\ tele'.sent = IF cfg.telemetry /\ tele'.ready THEN 1 ELSE 0
       /\ ~tele'.raised
       /\ pixel' = state']_vars

SweepReturned == ScanReturned /\ cfg.nSensor = 1

SaccCounts == SACC_MIN..SACC_MAX

NextLook ==
  \/ BoundedTick(FewSamples)
  \/ Resume
  \/ LookSteps(SaccCounts)

\* the foreground is not starved: a step of lookAround that can be taken is
\* taken (its waits are finite)
SpecLook == Init /\ [][NextLook]_vars /\ WF_vars(LookSteps(SaccCounts))

\* the saccades are over for a lookAround that is still in progress or done
LookPastSaccades == pc \in {"la_stop", "la_restore", "returned"}

\* C21: a lookAround that has begun returns; it has then done nSacc saccades,
\* nSacc between 4 and 10, if it never saw the interlock set, and if it saw it
\* set before saccade k it has done k - 1 saccades, with as many servo moves
\* and drives of the turn actuator, and goes on with the cleanup only.
C21_LookTerminates ==
  /\ [](loc.op = "look" =>
          /\ loc.brk => (LookPastSaccades /\ loc.i < loc.nSacc)
          /\ LookReturned =>
               /\ loc.nSacc \in SACC_MIN..SACC_MAX
               /\ loc.nMove = loc.i /\ loc.nDrive = loc.i
               /\ ~loc.brk => loc.i = loc.nSacc)
  /\ (pc = "la_state") ~> LookReturned

\* a lookAround of 7 saccades was stopped by the interlock before its third
C21_StoppedBeforeThird ==
  LookReturned /\ loc.brk /\ loc.nSacc = 7 /\ loc.i = 2 /\ loc.nDrive = 2

\* C22: a housekeeping run with the interlock set leaves the state OnHold, a
\* run with the interlock clear leaves the state as it was, OnHold included.
C22_OnlyToOnHold ==
  [][last' \in {"tick", "nap_hk"}
       => state' = IF onHold' THEN STATE_ON_HOLD ELSE state]_vars

\* the interlock has cleared in a tick and the state is still OnHold
C22_StillOnHoldWhenClear ==
  last = "tick" /\ ~onHold /\ state = STATE_ON_HOLD /\ pc = "idle"

\* C23 as claimed: when the servo ramp of nap is over, before the flash and
\* the suspend, the last angle commanded on the servo is SCAN_DIST_SERVO.
C23_RampReachesScanAngle ==
  pc \in {"nap_flash", "nap_dark", "nap_sleep"} => servoAngle = SCAN_DIST_SERVO

\* C24: after a housekeeping run with the interlock set, the state in the
\* snapshot the run published, if it published one, is OnHold, and the colour
\* the run set on the NeoPixel, if it got that far, is the one of OnHold.
C24_SnapshotAfterTilt ==
  (last = "tick" /\ onHold) =>
     /\ tele.sent = 1 => tele.state = STATE_ON_HOLD
     /\ ~tele.raised => pixel = STATE_ON_HOLD

\* the first run of an execution finds the robot tilted and publishes
C24_TiltPublished ==
  /\ last = "tick" /\ onHold /\ Len(pitchBuf) = 1
  /\ tele.sent = 1 /\ tele.state = STATE_ON_HOLD /\ pixel = STATE_ON_HOLD

\* the speeds the scan commanded on the turn actuator, in their order
TurnCommands == SelectSeq(log, LAMBDA e : e[1] = "turn")

\* C25: when a scan returns, in sweep or array mode and whatever its result,
\* the last speed it commanded on the turn actuator is 0 and the actuator is
\* at 0; in a sweep every reading comes right after the command of speed 0.
C25_ScanStopsTurning ==
  ScanReturned =>
     /\ motorTurn = 0
     /\ TurnCommands # <<>> => TurnCommands[Len(TurnCommands)][2] = 0
     /\ cfg.nSensor = 1 =>
          \A i \in 1..Len(log) :
             log[i][1] = "read" => (i > 1 /\ log[i - 1] = <<"turn", 0>>)

\* a sweep has returned Cliff, an array scan Obstacle: one predicate for each
\* would do, the sweep is taken
C25_SweepFoundCliff ==
  ScanReturned /\ cfg.nSensor = 1 /\ ret = 1 /\ Len(TurnCommands) = 2 * Len(scanPos)

====
